---- MODULE Spec2Model ----
(***************************************************************************)
(* A model of hqgohttp's retrying HTTP client: Client.Do (the attempt      *)
(* loop), the default retry policy CheckRecoverableErrors, and the         *)
(* connection-lifecycle bookkeeping Client.closeIdleConnections.           *)
(*                                                                         *)
(* Spec      one call of Client.Do on one request, with the request's own  *)
(*           context and the overall deadline as the environment.          *)
(* SpecIdle  concurrent callers of closeIdleConnections sharing one        *)
(*           Client (one atomic operation of sync/atomic per step).        *)
(***************************************************************************)
EXTENDS Integers, Sequences, FiniteSets, TLC

(* ------------------------------ bounds --------------------------------- *)

\* Largest configured Options.RetryMax (the smallest is -1: the field is a
\* plain int and New does not validate it).
MaxRetryMax == 2

\* Number of goroutines calling closeIdleConnections on one Client.
NumCallers == 2

\* Total closeIdleConnections calls started in SpecIdle.
MaxCalls == 103

\* The backoff policies compute in int64 / time.Duration and float64.  The
\* model keeps the wrap-around and the ranges, scaled down: integers are
\* IntBits wide, and a float64 is finite up to 2^FloatMaxExp (2^1023 in Go,
\* beyond the integer range as here).  Inputs stay where float64 is exact.
IntBits == 8

FloatMaxExp == 12

\* Largest attempt number passed to a backoff policy (beyond FloatMaxExp).
MaxAttemptNum == 13

\* A draw of cryptoRandFloat64 is k / JitterSteps, k in 0..JitterSteps.
JitterSteps == 4

\* The model's 1000000000 (nanoseconds in FullJitterBackoff), in the scaled
\* integer range.
SecondUnits == 10

\* Longest response body handed to drainBody, in bytes.
MaxBodyLen == 3

\* Largest Options.RespReadLimit tried.
MaxReadLimit == 2

\* Do calls made on a client built by New.
MaxDoCalls == 2

\* Attempts that send the body prepared for a request.
MaxBodySends == 2

(* ------------------------- program constants --------------------------- *)

closeConnectionsCounter == 100

(* ------------------------------ values --------------------------------- *)

NoErr == "nil"
NoRes == "nil"

\* The error text Do matches to fall back to the HTTP/2 client.
ErrHTTP2 == "malformedHTTP2"

\* Errors a transport call can end with.  All but "bareRedirects" are
\* *url.Error values (what http.Client.Do returns); "bareRedirects" has the
\* text of a redirect-limit error but no *url.Error in its chain.
\* "schemeInText" is a *url.Error of a transient failure (connection
\* refused) whose text, which quotes the request URL, holds the words
\* schemeErrorRegex looks for.
Errors ==
    {"transient", ErrHTTP2, "redirects", "scheme", "unknownAuthority", "bareRedirects",
     "schemeInText"}

\* ctx.Err() of a canceled request context.
ErrCtx == "ctxErr"

\* An overriding error returned by a custom CheckRetry.
ErrPolicy == "policyErr"

\* The synthetic error of the give-up path ("... giving up after N attempts").
ErrGivingUp == "givingUp"

\* The pair a custom ErrorHandler returns.
HandlerRes == "handlerRes"
HandlerErr == "handlerErr"

\* What one transport call (http.Client.Do, or the digest round trip)
\* returns in the runs of Do: <<response, its body still open, error>>.
\* net/http returns a response together with an error only when the redirect
\* check fails, and then the body is already closed.
TransportOutcomes ==
    {<<"resp", TRUE, NoErr>>,
     <<"resp", FALSE, "redirects">>,
     <<NoRes, FALSE, "unknownAuthority">>,
     <<NoRes, FALSE, "transient">>,
     <<NoRes, FALSE, ErrHTTP2>>}

\* The value stored in the request context under the RetryMax key.
ContextValues ==
    {[present |-> FALSE, isInt |-> FALSE, val |-> 0],
     [present |-> TRUE, isInt |-> FALSE, val |-> 0]}
    \cup {[present |-> TRUE, isInt |-> TRUE, val |-> v] : v \in {1}}

Policies == {"default", "always", "custom"}

Callers == 1..NumCallers

VARIABLES
    \* Client (fixed by New)
    optRetryMax,        \* c.options.RetryMax
    KillIdleConn,       \* c.options.KillIdleConn, as resolved by New
    policy,             \* c.CheckRetry
    hasErrorHandler,    \* c.ErrorHandler != nil
    hasRequestLogHook,  \* c.RequestLogHook != nil
    hasResponseLogHook, \* c.ResponseLogHook != nil
    requestCounter,     \* c.requestCounter
    \* the request
    ctxRetryMax,        \* req.Context().Value(RetryMax)
    ctxDone,            \* req.Context().Err() != nil
    Metrics,            \* req.Metrics
    \* Do's frame
    pc,
    mainDone,           \* mainCtx is done (Options.Timeout elapsed)
    retryMax,
    i,
    res,
    bodyOpen,           \* res.Body is open
    err,
    fellBack,           \* the HTTP/2 client was called in this iteration
    retRes,
    retErr,
    exit,               \* the return statement taken
    \* observations
    attempts,           \* loop iterations that called the transport
    attemptsAtCancel,   \* attempts when the request context was canceled
    attemptsAtDeadline, \* attempts when the overall deadline fired
    requestLog,         \* RequestLogHook calls: <<index passed, attempts started before>>
    responseLogs,       \* calls of ResponseLogHook
    backoffCalls,       \* calls of c.Backoff
    selects,            \* times the wait (select) was entered
    handlerArgs,        \* arguments passed to ErrorHandler
    reported,           \* attempt count in the giving-up error
    wrapped,            \* error wrapped by the giving-up error
    overriding,         \* error the policy supplied with its stop
    idleCalls,          \* closeIdleConnections calls made by Do
    closes,             \* HTTPClient.CloseIdleConnections calls
    \* concurrent callers of closeIdleConnections (SpecIdle)
    cpc,
    loaded,             \* each caller's local requestCounter
    calls,              \* calls started
    returned,           \* calls returned
    reached,            \* times requestCounter reached the threshold
    overlapped,         \* two calls were ever in flight together
    \* one call of a backoff policy (SpecBackoff)
    bArch,              \* how the build converts an out-of-range float64
    bMin,
    bMax,
    bAttemptNum,
    bDraw,              \* the jitter drawn from crypto/rand
    bPolicy,            \* the policy called
    bOut,               \* the duration returned
    \* one call of the default retry policy (SpecPolicy)
    pCtxErr,            \* ctx.Err()
    pResp,              \* resp: "nil" or its status code
    pErr,
    pCalled,
    pOut,
    \* one retry step of Do around drainBody (SpecDrain)
    dRes,               \* the retried attempt's response
    dErr,               \* and error
    dLen,               \* bytes left in resp.Body
    dLimit,             \* c.options.RespReadLimit
    dFailAt,            \* offset at which reading the body fails, or NoFail
    dRead,              \* bytes read from resp.Body
    dErrors,            \* req.Metrics.DrainErrors
    dClosed,            \* resp.Body.Close() was called
    dpc,
    \* New and the calls made on the client it returns (SpecNew)
    nOptions,           \* *options as passed
    nTransport,         \* the primary client's Transport
    nTimeout,           \* client.HTTPClient.Timeout
    nKill,              \* client.options.KillIdleConn
    nCalls,             \* Do calls returned on the client
    npc,
    \* one request body prepared and sent (SpecBody)
    rbKind,             \* dynamic type of rawBody
    rbLen,              \* bytes the reader holds
    rbFailAt,           \* offset at which reading it fails, or NoFail
    rbPos,              \* bytes already read from the reader
    rbOut,              \* what getReusableBodyandContentLength returned
    rbSent,             \* bytes the last attempt read from the returned body
    rbSends,            \* attempts that read the returned body
    rbpc

clientVars ==
    <<optRetryMax, KillIdleConn, policy, hasErrorHandler, hasRequestLogHook,
      hasResponseLogHook>>

doVars ==
    <<ctxRetryMax, ctxDone, Metrics, pc, mainDone, retryMax, i, res, bodyOpen,
      err, fellBack, retRes, retErr, exit, attempts, attemptsAtCancel,
      attemptsAtDeadline, requestLog, responseLogs, backoffCalls, selects,
      handlerArgs, reported, wrapped, overriding, idleCalls>>

idleVars == <<cpc, loaded, calls, returned, reached, overlapped>>

backoffVars == <<bArch, bMin, bMax, bAttemptNum, bDraw, bPolicy, bOut>>

policyVars == <<pCtxErr, pResp, pErr, pCalled, pOut>>

drainVars == <<dRes, dErr, dLen, dLimit, dFailAt, dRead, dErrors, dClosed, dpc>>

newVars == <<nOptions, nTransport, nTimeout, nKill, nCalls, npc>>

bodyVars == <<rbKind, rbLen, rbFailAt, rbPos, rbOut, rbSent, rbSends, rbpc>>

pureVars == <<backoffVars, policyVars, drainVars, newVars, bodyVars>>

vars == <<clientVars, requestCounter, closes, doVars, idleVars, pureVars>>

(* -------------------------- pure functions ----------------------------- *)

\* The context value never looked at.
RetryMaxOfOptionsOnly(opt, v) == opt

\* Do, lines 89-95: the per-call override beats Options.RetryMax when the
\* context value is present and is an int.
RetryMaxOf(opt, v) ==
    IF v.present /\ v.isInt THEN v.val ELSE opt

\* errors.As(err, &urlErr)
IsURLError(e) ==
    e \in {"transient", ErrHTTP2, "redirects", "scheme", "unknownAuthority", "schemeInText"}

isRedirectError(e) == e = "redirects"

\* schemeErrorRegex.MatchString(err.Error()): unanchored, over the whole text.
isSchemeError(e) == e \in {"scheme", "schemeInText"}

isUnknownAuthorityError(e) == e = "unknownAuthority"

\* CheckRecoverableErrors without its first check (lines 56-58).
CheckRecoverableErrorsNoCtx(done, e) ==
    IF e = NoErr THEN [ok |-> FALSE, err |-> NoErr]
    ELSE IF IsURLError(e)
            /\ (isRedirectError(e) \/ isSchemeError(e) \/ isUnknownAuthorityError(e))
         THEN [ok |-> FALSE, err |-> NoErr]
    ELSE [ok |-> TRUE, err |-> NoErr]

\* CheckRecoverableErrors with the redirect-limit error retried.
CheckRecoverableErrorsRetryRedirects(done, e) ==
    IF done THEN [ok |-> FALSE, err |-> ErrCtx]
    ELSE IF e = NoErr THEN [ok |-> FALSE, err |-> NoErr]
    ELSE IF IsURLError(e) /\ (isSchemeError(e) \/ isUnknownAuthorityError(e))
         THEN [ok |-> FALSE, err |-> NoErr]
    ELSE [ok |-> TRUE, err |-> NoErr]

\* The default retry policy: <<shouldRetry, overriding error>>.
CheckRecoverableErrors(done, e) ==
    IF done THEN [ok |-> FALSE, err |-> ErrCtx]
    ELSE IF e = NoErr THEN [ok |-> FALSE, err |-> NoErr]
    ELSE IF IsURLError(e)
            /\ (isRedirectError(e) \/ isSchemeError(e) \/ isUnknownAuthorityError(e))
         THEN [ok |-> FALSE, err |-> NoErr]
    ELSE [ok |-> TRUE, err |-> NoErr]

\* What a custom CheckRetry may answer to one call.
Decisions == [ok : BOOLEAN, err : {NoErr, ErrPolicy}]

\* c.CheckRetry(req.Context(), res, err): the default policy, a stub that
\* always says retry, or a custom policy answering d.
CheckRetry(p, done, e, d) ==
    IF p = "default" THEN CheckRecoverableErrors(done, e)
    ELSE IF p = "always" THEN [ok |-> TRUE, err |-> NoErr]
    ELSE d

\* The answers to draw for one call of the policy: only a custom policy's
\* answer is an input.
Answers(p) ==
    IF p = "custom" THEN Decisions ELSE {[ok |-> FALSE, err |-> NoErr]}

\* The hook called after the transport, and with a one-based index.
LogRequestAfterTransport(log, idx, made) == Append(log, <<idx + 1, made + 1>>)

\* Do, lines 99-101: c.RequestLogHook(req.Request, i), called when made
\* transport attempts of this call have been started.
LogRequest(log, idx, made) == Append(log, <<idx, made>>)

\* The response hook called whatever the outcome.
LogsResponseAlways(e, hook) == hook

\* Do, lines 122-131: the response hook runs when the iteration's final
\* error is nil and a hook is configured.
LogsResponse(e, hook) == e = NoErr /\ hook

\* The attempt's error returned whatever the policy supplied.
StopErrorIgnoresPolicy(checkErr, e) == e

\* Do, lines 135-137: if checkErr != nil { err = checkErr }
StopError(checkErr, e) == IF checkErr # NoErr THEN checkErr ELSE e

\* The HTTP/2 client called again for as long as the error stays.
NeedsFallbackRepeated(e, fell) == e = ErrHTTP2

\* Do, lines 116-120: an "if", so the HTTP/2 client is called when the
\* primary attempt's error has the malformed-version text, and not again
\* for what the HTTP/2 client itself returns.
NeedsFallback(e, fell) == e = ErrHTTP2 /\ ~fell

\* The overall deadline aborting the call as the cancellation does.
AbortsOnDeadline(case) == case \in {"ctx", "main"}

\* Do, lines 166-173: of the three cases of the select only
\* <-req.Context().Done() returns; <-mainCtx.Done() and the timer have empty
\* bodies and fall through to the loop's i++.
Aborts(case) == case = "ctx"

\* The last response returned with the cancellation error.
AbortResponseKeepsLast(r) == r

\* Do, line 171: return nil, req.Context().Err()
AbortResponse(r) == NoRes

\* The budget test written "remain == 0".
ExhaustedAtZeroOnly(rm, idx) == rm - idx = 0

\* The budget test written "remain < 0".
ExhaustedOffByOne(rm, idx) == rm - idx < 0

\* Do, lines 146-149: remain := retryMax - i; if remain <= 0 { break }
Exhausted(rm, idx) == rm - idx <= 0

\* The failure counter left alone.
FailuresCountedTwice(n, e) == IF e # NoErr THEN n + 2 ELSE n

FailuresNotCounted(n, e) == n

\* Do, lines 122-124: the failure counter after an iteration ending in e.
FailuresAfter(n, e) == IF e # NoErr THEN n + 1 ELSE n

\* The retry counter started over at the second retry.
RetriesReset(n) == IF n = 0 THEN 1 ELSE 0

\* The retry counter left alone.
RetriesNotCounted(n) == n

\* Do, line 152.
RetriesAfter(n) == n + 1

\* Do, line 155: the response of a retried attempt is drained.
Drains(r, e) == e = NoErr /\ r # NoRes

\* drainBody, lines 195-198: whether io.Copy fails is an input of a drain.
DrainResults(r, e) == IF Drains(r, e) THEN BOOLEAN ELSE {FALSE}

\* The body closed before the handler is called as well.
ClosesBodyBeforeHandler(handler, r) == r # NoRes

\* The body left to the caller on the default give-up path.
ClosesBodyNever(handler, r) == FALSE

\* Do, lines 176-186: past the loop, Do closes the last response's body
\* only when no ErrorHandler takes the result over.
ClosesBody(handler, r) == ~handler /\ r # NoRes

\* The counter advanced whatever Options.KillIdleConn says.
CounterAfterCloseIgnoresFlag(kill, rc) ==
    IF rc < closeConnectionsCounter THEN rc + 1 ELSE 0

\* closeIdleConnections run alone: the counter it leaves ...
CounterAfterClose(kill, rc) ==
    IF kill
    THEN IF rc < closeConnectionsCounter THEN rc + 1 ELSE 0
    ELSE rc

\* ... and whether it calls HTTPClient.CloseIdleConnections.
ClosesIdle(kill, rc) == kill /\ ~(rc < closeConnectionsCounter)

(* ------------------------------- Do ------------------------------------ *)

\* c.closeIdleConnections() followed by "return r, e".
Return(r, e, how) ==
    /\ pc' = "done"
    /\ retRes' = r
    /\ retErr' = e
    /\ exit' = how
    /\ idleCalls' = idleCalls + 1
    /\ requestCounter' = CounterAfterClose(KillIdleConn, requestCounter)
    /\ closes' = IF ClosesIdle(KillIdleConn, requestCounter) THEN closes + 1 ELSE closes

\* Lines 84-95: the overall deadline starts, the retry ceiling is resolved.
DoEnter ==
    /\ pc = "call"
    /\ pc' = "attempt"
    /\ retryMax' = RetryMaxOf(optRetryMax, ctxRetryMax)
    /\ UNCHANGED <<pureVars, clientVars, requestCounter, closes, idleVars, ctxRetryMax,
                   ctxDone, Metrics, mainDone, i, res, bodyOpen, err, fellBack,
                   retRes, retErr, exit, attempts, attemptsAtCancel,
                   attemptsAtDeadline, requestLog, responseLogs, backoffCalls,
                   selects, handlerArgs, reported, wrapped, overriding, idleCalls>>

\* Lines 97-110: the request-log hook, then the attempt on the primary client
\* (or the digest transport wrapping it).
Attempt ==
    /\ pc = "attempt"
    /\ requestLog' = IF hasRequestLogHook
                     THEN LogRequest(requestLog, i, attempts)
                     ELSE requestLog
    /\ attempts' = attempts + 1
    /\ \E o \in TransportOutcomes :
          /\ res' = o[1]
          /\ bodyOpen' = o[2]
          /\ err' = o[3]
    /\ fellBack' = FALSE
    /\ pc' = "check"
    /\ UNCHANGED <<pureVars, clientVars, requestCounter, closes, idleVars, ctxRetryMax,
                   ctxDone, Metrics, mainDone, retryMax, i, retRes, retErr, exit,
                   attemptsAtCancel, attemptsAtDeadline, responseLogs,
                   backoffCalls, selects, handlerArgs, reported, wrapped, overriding,
                   idleCalls>>

\* Lines 113-117: the first decision is computed and dropped, the request is
\* sent again on the HTTP/2 client.
Fallback ==
    /\ pc = "check"
    /\ NeedsFallback(err, fellBack)
    /\ \E o \in TransportOutcomes :
          /\ res' = o[1]
          /\ bodyOpen' = o[2]
          /\ err' = o[3]
    /\ fellBack' = TRUE
    /\ UNCHANGED <<pureVars, clientVars, requestCounter, closes, idleVars, ctxRetryMax,
                   ctxDone, Metrics, pc, mainDone, retryMax, i, retRes, retErr,
                   exit, attempts, attemptsAtCancel, attemptsAtDeadline,
                   requestLog, responseLogs, backoffCalls, selects, handlerArgs,
                   reported, wrapped, overriding, idleCalls>>

\* Lines 113/119 (the decision acted upon) to 161, and 176-190 after "break".
Decide ==
    /\ pc = "check"
    /\ ~NeedsFallback(err, fellBack)
    /\ \E answer \in Answers(policy), drainFails \in DrainResults(res, err) :
        LET d == CheckRetry(policy, ctxDone, err, answer)
            logs == LogsResponse(err, hasResponseLogHook)
            counted == [Metrics EXCEPT !.Failures = FailuresAfter(@, err)]
            drains == Drains(res, err)
        IN  /\ responseLogs' = IF logs THEN responseLogs + 1 ELSE responseLogs
            /\ IF ~d.ok
               THEN \* lines 134-142
                    /\ Return(res, StopError(d.err, err), "stop")
                    /\ Metrics' = counted
                    /\ overriding' = d.err
                    /\ UNCHANGED <<bodyOpen, backoffCalls, handlerArgs, reported, wrapped>>
               ELSE IF Exhausted(retryMax, i)
               THEN IF hasErrorHandler
                    THEN \* lines 176-180
                         /\ Return(HandlerRes, HandlerErr, "handler")
                         /\ handlerArgs' = <<res, err, retryMax + 1>>
                         /\ bodyOpen' = IF ClosesBody(hasErrorHandler, res)
                                        THEN FALSE ELSE bodyOpen
                         /\ Metrics' = counted
                         /\ UNCHANGED <<backoffCalls, reported, wrapped, overriding>>
                    ELSE \* lines 182-190
                         /\ Return(NoRes, ErrGivingUp, "giveup")
                         /\ bodyOpen' = IF ClosesBody(hasErrorHandler, res)
                                        THEN FALSE ELSE bodyOpen
                         /\ reported' = retryMax + 1
                         /\ wrapped' = err
                         /\ UNCHANGED overriding
                         /\ Metrics' = counted
                         /\ UNCHANGED <<backoffCalls, handlerArgs>>
               ELSE \* lines 151-161
                    /\ Metrics' =
                         [counted EXCEPT
                            !.Retries = RetriesAfter(@),
                            !.DrainErrors = IF drains /\ drainFails THEN @ + 1 ELSE @]
                    /\ bodyOpen' = IF drains THEN FALSE ELSE bodyOpen
                    /\ backoffCalls' = backoffCalls + 1
                    /\ pc' = "select"
                    /\ UNCHANGED <<requestCounter, closes, retRes, retErr, exit,
                                   idleCalls, handlerArgs, reported, wrapped, overriding>>
    /\ UNCHANGED <<pureVars, clientVars, idleVars, ctxRetryMax, ctxDone, mainDone, retryMax,
                   i, res, err, fellBack, attempts, attemptsAtCancel,
                   attemptsAtDeadline, requestLog, selects>>

\* The loop's "i++" after the select falls through.
NextIteration ==
    /\ i' = i + 1
    /\ pc' = "attempt"
    /\ UNCHANGED <<requestCounter, closes, retRes, retErr, exit, idleCalls>>

\* Lines 166-173, on entry: the select takes one of the cases that are ready
\* (Go picks among them at random); with none ready the goroutine parks.
SelectPoll ==
    /\ pc = "select"
    /\ selects' = selects + 1
    /\ \E timerReady \in BOOLEAN :
        LET ready == (IF mainDone THEN {"main"} ELSE {})
                     \cup (IF ctxDone THEN {"ctx"} ELSE {})
                     \cup (IF timerReady THEN {"timer"} ELSE {})
        IN  IF ready = {}
            THEN /\ pc' = "parked"
                 /\ UNCHANGED <<requestCounter, closes, i, retRes, retErr, exit, idleCalls>>
            ELSE \E c \in ready :
                    IF Aborts(c)
                    THEN /\ Return(AbortResponse(res), ErrCtx, "abort")
                         /\ UNCHANGED i
                    ELSE NextIteration
    /\ UNCHANGED <<pureVars, clientVars, idleVars, ctxRetryMax, ctxDone, Metrics, mainDone,
                   retryMax, res, bodyOpen, err, fellBack, attempts,
                   attemptsAtCancel, attemptsAtDeadline, requestLog, responseLogs,
                   backoffCalls, handlerArgs, reported, wrapped, overriding>>

\* Line 172: the backoff timer wakes the parked select.
WakeTimer ==
    /\ pc = "parked"
    /\ NextIteration
    /\ UNCHANGED <<pureVars, clientVars, idleVars, ctxRetryMax, ctxDone, Metrics, mainDone,
                   retryMax, res, bodyOpen, err, fellBack, attempts,
                   attemptsAtCancel, attemptsAtDeadline, requestLog, responseLogs,
                   backoffCalls, selects, handlerArgs, reported, wrapped, overriding>>

\* Line 167: the overall deadline wakes the parked select, which falls through.
WakeDeadline ==
    /\ pc = "parked"
    /\ ~mainDone
    /\ mainDone' = TRUE
    /\ attemptsAtDeadline' = attempts
    /\ IF Aborts("main")
       THEN /\ Return(AbortResponse(res), ErrCtx, "abort")
            /\ UNCHANGED i
       ELSE NextIteration
    /\ UNCHANGED <<pureVars, clientVars, idleVars, ctxRetryMax, ctxDone, Metrics, retryMax,
                   res, bodyOpen, err, fellBack, attempts, attemptsAtCancel,
                   requestLog, responseLogs, backoffCalls, selects, handlerArgs,
                   reported, wrapped, overriding>>

\* Lines 168-171: the request's cancellation wakes the parked select.
WakeCancel ==
    /\ pc = "parked"
    /\ ~ctxDone
    /\ ctxDone' = TRUE
    /\ attemptsAtCancel' = attempts
    /\ Return(AbortResponse(res), ErrCtx, "abort")
    /\ UNCHANGED <<pureVars, clientVars, idleVars, ctxRetryMax, Metrics, mainDone, retryMax,
                   i, res, bodyOpen, err, fellBack, attempts, attemptsAtDeadline,
                   requestLog, responseLogs, backoffCalls, selects, handlerArgs,
                   reported, wrapped, overriding>>

\* The caller cancels the request's context while Do is not parked: before
\* the call, during a transport call (seen once it has returned), or before
\* the select polls.
Cancel ==
    /\ pc \in {"call", "check", "select"}
    /\ ~ctxDone
    /\ ctxDone' = TRUE
    /\ attemptsAtCancel' = attempts
    /\ UNCHANGED <<pureVars, clientVars, requestCounter, closes, idleVars, ctxRetryMax,
                   Metrics, pc, mainDone, retryMax, i, res, bodyOpen, err,
                   fellBack, retRes, retErr, exit, attempts, attemptsAtDeadline,
                   requestLog, responseLogs, backoffCalls, selects, handlerArgs,
                   reported, wrapped, overriding, idleCalls>>

\* Options.Timeout elapses (line 85) while Do is not parked: during a
\* transport call, or before the select polls.
DeadlineFires ==
    /\ pc \in {"check", "select"}
    /\ ~mainDone
    /\ mainDone' = TRUE
    /\ attemptsAtDeadline' = attempts
    /\ UNCHANGED <<pureVars, clientVars, requestCounter, closes, idleVars, ctxRetryMax,
                   ctxDone, Metrics, pc, retryMax, i, res, bodyOpen, err,
                   fellBack, retRes, retErr, exit, attempts, attemptsAtCancel,
                   requestLog, responseLogs, backoffCalls, selects, handlerArgs,
                   reported, wrapped, overriding, idleCalls>>

IdleAtRest ==
    /\ cpc = [c \in Callers |-> "idle"]
    /\ loaded = [c \in Callers |-> 0]
    /\ calls = 0
    /\ returned = 0
    /\ reached = 0
    /\ overlapped = FALSE

BackoffAtRest ==
    /\ bArch = "amd64"
    /\ bMin = 0
    /\ bMax = 0
    /\ bAttemptNum = 0
    /\ bDraw = 0
    /\ bPolicy = "none"
    /\ bOut = 0

PolicyAtRest ==
    /\ pCtxErr = NoErr
    /\ pResp = NoRes
    /\ pErr = NoErr
    /\ pCalled = FALSE
    /\ pOut = [ok |-> FALSE, err |-> NoErr]

DrainAtRest ==
    /\ dRes = NoRes
    /\ dErr = NoErr
    /\ dLen = 0
    /\ dLimit = 0
    /\ dFailAt = 0
    /\ dRead = 0
    /\ dErrors = 0
    /\ dClosed = FALSE
    /\ dpc = "none"

NewAtRest ==
    /\ nOptions = <<>>
    /\ nTransport = "none"
    /\ nTimeout = 0
    /\ nKill = FALSE
    /\ nCalls = 0
    /\ npc = "none"

BodyAtRest ==
    /\ rbKind = "nil"
    /\ rbLen = 0
    /\ rbFailAt = -1
    /\ rbPos = 0
    /\ rbOut = [body |-> "nil", length |-> 0, err |-> NoErr]
    /\ rbSent = 0
    /\ rbSends = 0
    /\ rbpc = "none"

DoAtRest ==
    /\ ctxDone = FALSE
    /\ Metrics = [Retries |-> 0, Failures |-> 0, DrainErrors |-> 0]
    /\ pc = "call"
    /\ mainDone = FALSE
    /\ retryMax = 0
    /\ i = 0
    /\ res = NoRes
    /\ bodyOpen = FALSE
    /\ err = NoErr
    /\ fellBack = FALSE
    /\ retRes = NoRes
    /\ retErr = NoErr
    /\ exit = "none"
    /\ attempts = 0
    /\ attemptsAtCancel = 0
    /\ attemptsAtDeadline = 0
    /\ requestLog = <<>>
    /\ responseLogs = 0
    /\ backoffCalls = 0
    /\ selects = 0
    /\ handlerArgs = <<>>
    /\ reported = 0
    /\ wrapped = NoErr
    /\ overriding = NoErr
    /\ idleCalls = 0

\* A constructed Client and a fresh request about to be passed to Do.
Init ==
    /\ optRetryMax \in -1..MaxRetryMax
    /\ KillIdleConn \in BOOLEAN
    /\ policy \in Policies
    /\ hasErrorHandler \in BOOLEAN
    /\ hasRequestLogHook \in BOOLEAN
    /\ hasResponseLogHook \in BOOLEAN
    /\ requestCounter \in (IF KillIdleConn THEN {0, closeConnectionsCounter} ELSE {0})
    /\ closes = 0
    /\ ctxRetryMax \in ContextValues
    /\ DoAtRest
    /\ IdleAtRest
    /\ BackoffAtRest
    /\ PolicyAtRest
    /\ DrainAtRest
    /\ NewAtRest
    /\ BodyAtRest

Next ==
    \/ DoEnter
    \/ Attempt
    \/ Fallback
    \/ Decide
    \/ SelectPoll
    \/ WakeTimer
    \/ WakeDeadline
    \/ WakeCancel
    \/ Cancel
    \/ DeadlineFires

Spec == Init /\ [][Next]_vars

\* A Client with both log hooks set and a fresh connection counter: the hooks
\* are called and return, and none of the loop's conditions reads them.
InitLive ==
    /\ Init
    /\ hasRequestLogHook
    /\ hasResponseLogHook
    /\ requestCounter = 0

\* Do's own steps are taken: the goroutine is scheduled, every transport
\* call returns (Attempt, Fallback), the policy, the hooks and the backoff
\* return (Decide), and the timer of a finite wait fires (SelectPoll,
\* WakeTimer). The caller's cancellation and the deadline may never come.
SpecLive ==
    /\ InitLive
    /\ [][Next]_vars
    /\ WF_vars(DoEnter)
    /\ WF_vars(Attempt)
    /\ WF_vars(Fallback)
    /\ WF_vars(Decide)
    /\ WF_vars(SelectPoll)
    /\ WF_vars(WakeTimer)

(* ------------------ closeIdleConnections, concurrently ----------------- *)

InFlight == {c \in Callers : cpc[c] # "idle"}

\* Lines 204-205: a goroutine enters closeIdleConnections; with KillIdleConn
\* unset the call returns at once, otherwise it loads the counter.
IdleLoad(c) ==
    /\ cpc[c] = "idle"
    /\ calls < MaxCalls
    /\ calls' = calls + 1
    /\ IF KillIdleConn
       THEN /\ loaded' = [loaded EXCEPT ![c] = requestCounter]
            /\ cpc' = [cpc EXCEPT ![c] = "loaded"]
            /\ overlapped' = (overlapped \/ InFlight # {})
            /\ UNCHANGED returned
       ELSE /\ returned' = returned + 1
            /\ UNCHANGED <<loaded, cpc, overlapped>>
    /\ UNCHANGED <<pureVars, clientVars, requestCounter, closes, doVars, reached>>

\* Lines 206-212: on the value loaded, either atomic.AddUint32(.., 1), or
\* atomic.StoreUint32(.., 0) and HTTPClient.CloseIdleConnections().
IdleUpdate(c) ==
    /\ cpc[c] = "loaded"
    /\ IF loaded[c] < closeConnectionsCounter
       THEN /\ requestCounter' = requestCounter + 1
            /\ reached' = IF requestCounter' = closeConnectionsCounter
                          THEN reached + 1 ELSE reached
            /\ UNCHANGED closes
       ELSE /\ requestCounter' = 0
            /\ closes' = closes + 1
            /\ UNCHANGED reached
    /\ cpc' = [cpc EXCEPT ![c] = "idle"]
    /\ returned' = returned + 1
    /\ UNCHANGED <<pureVars, clientVars, doVars, loaded, calls, overlapped>>

\* One Client shared by the callers, no call made yet.
InitIdle ==
    /\ optRetryMax = 0
    /\ KillIdleConn \in BOOLEAN
    /\ policy = "default"
    /\ hasErrorHandler = FALSE
    /\ hasRequestLogHook = FALSE
    /\ hasResponseLogHook = FALSE
    /\ requestCounter = 0
    /\ closes = 0
    /\ ctxRetryMax = [present |-> FALSE, isInt |-> FALSE, val |-> 0]
    /\ DoAtRest
    /\ IdleAtRest
    /\ BackoffAtRest
    /\ PolicyAtRest
    /\ DrainAtRest
    /\ NewAtRest
    /\ BodyAtRest

NextIdle == \E c \in Callers : IdleLoad(c) \/ IdleUpdate(c)

SpecIdle == InitIdle /\ [][NextIdle]_vars

(* --------------------------- backoff policies -------------------------- *)

\* int, int64 and time.Duration: two's complement, IntBits wide.
Modulus == 2 ^ IntBits

MaxInt == 2 ^ (IntBits - 1) - 1

MinInt == -(2 ^ (IntBits - 1))

Wrap(x) == ((x - MinInt) % Modulus) + MinInt

\* Division truncating toward zero, as a float64 -> int64 conversion does.
TruncDiv(a, b) == IF a >= 0 THEN a \div b ELSE -((-a) \div b)

\* A float64: a finite value, an infinity (v is its sign) or NaN.
Fin(x) == [kind |-> "fin", v |-> x]

Inf(sign) == [kind |-> "inf", v |-> sign]

NaN == [kind |-> "nan", v |-> 0]

Sign(x) == IF x > 0 THEN 1 ELSE IF x < 0 THEN -1 ELSE 0

\* float64(d) of an integer: exact, but the largest integer rounds up to
\* the power of two above it (float64(math.MaxInt64) is 2^63).
FloatOfInt(x) == Fin(IF x = MaxInt THEN MaxInt + 1 ELSE x)

\* math.Pow(2, float64(attemptNum)): +Inf past the largest exponent.
Pow2(n) == IF n > FloatMaxExp THEN Inf(1) ELSE Fin(2 ^ n)

\* a * b in float64, b finite: Inf * 0 is NaN.
FloatMul(a, b) ==
    CASE a.kind = "nan" -> NaN
      [] a.kind = "inf" -> IF b.v = 0 THEN NaN ELSE Inf(a.v * Sign(b.v))
      [] OTHER          -> Fin(a.v * b.v)

\* a == b in float64: NaN equals nothing.
FloatEq(a, b) == a.kind # "nan" /\ a = b

Archs == {"amd64", "arm64"}

\* time.Duration(f) / int64(f).  The conversion of a value that does not
\* fit is implementation-dependent: amd64 yields the smallest integer, arm64
\* saturates and yields 0 for NaN.
IntOfFloat(f, arch) ==
    IF f.kind = "fin" /\ f.v >= MinInt /\ f.v <= MaxInt
    THEN f.v
    ELSE IF arch = "amd64"
         THEN MinInt
         ELSE CASE f.kind = "nan" -> 0
                [] f.v > 0        -> MaxInt
                [] OTHER          -> MinInt

\* cryptoRandFloat64() * f for the draw k / JitterSteps, f an integer:
\* the value in units of 1 / JitterSteps.
Draws == 0..JitterSteps

\* cryptoRandInt(max): 0 for max <= 0, otherwise a value of [0, max).
cryptoRandInt(max, k) == IF max <= 0 THEN 0 ELSE (k * (max - 1)) \div JitterSteps

DefaultBackoffNoOverflowCheck(min, max, attemptNum, arch) ==
    LET mult  == FloatMul(Pow2(attemptNum), FloatOfInt(min))
        sleep == IntOfFloat(mult, arch)
    IN  IF sleep > max THEN max ELSE sleep

\* The delay that does not fit or exceeds max replaced by min.
DefaultBackoffClampsToMin(min, max, attemptNum, arch) ==
    LET mult  == FloatMul(Pow2(attemptNum), FloatOfInt(min))
        sleep == IntOfFloat(mult, arch)
    IN  IF ~FloatEq(FloatOfInt(sleep), mult) \/ sleep > max THEN min ELSE sleep

\* DefaultBackoff, part_000 lines 85-97.
DefaultBackoff(min, max, attemptNum, arch) ==
    LET mult  == FloatMul(Pow2(attemptNum), FloatOfInt(min))
        sleep == IntOfFloat(mult, arch)
    IN  IF ~FloatEq(FloatOfInt(sleep), mult) \/ sleep > max THEN max ELSE sleep

LinearJitterBackoffZeroBased(min, max, attemptNum, k) ==
    IF max <= min
    THEN Wrap(min * attemptNum)
    ELSE LET jitter    == TruncDiv(k * Wrap(max - min), JitterSteps)
             jitterMin == Wrap(jitter + min)
         IN  Wrap(jitterMin * attemptNum)

\* LinearJitterBackoff, part_000 lines 119-144.
LinearJitterBackoff(min, max, attemptNum, k) ==
    LET n == Wrap(attemptNum + 1)
    IN  IF max <= min
        THEN Wrap(min * n)
        ELSE LET jitter    == TruncDiv(k * Wrap(max - min), JitterSteps)
                 jitterMin == Wrap(jitter + min)
             IN  Wrap(jitterMin * n)

\* FullJitterBackoff, part_000 lines 153-169.
FullJitterBackoff(min, max, attemptNum, k) ==
    LET duration == Wrap(Wrap(attemptNum * SecondUnits) * 2)
        jitter   == Wrap(cryptoRandInt(Wrap(duration - attemptNum), k) + min)
    IN  IF jitter > max THEN max ELSE jitter

ExponentialJitterBackoffNoClamp(min, max, attemptNum, k, arch) ==
    LET minf == FloatOfInt(min)
        mult == FloatMul(Pow2(attemptNum), minf)
        sum  == CASE mult.kind = "nan" -> NaN
                  [] mult.kind = "inf" -> IF k = 0 THEN NaN ELSE mult
                  [] OTHER ->
                       Fin(TruncDiv(mult.v * JitterSteps + k * (mult.v - minf.v),
                                    JitterSteps))
    IN  IntOfFloat(sum, arch)

\* ExponentialJitterBackoff, part_000 lines 178-199.  The sum mult + jitter
\* is kept in units of 1 / JitterSteps and truncated by the conversion.
ExponentialJitterBackoff(min, max, attemptNum, k, arch) ==
    LET minf  == FloatOfInt(min)
        mult  == FloatMul(Pow2(attemptNum), minf)
        sum   == CASE mult.kind = "nan" -> NaN
                   [] mult.kind = "inf" -> IF k = 0 THEN NaN ELSE mult
                   [] OTHER ->
                        Fin(TruncDiv(mult.v * JitterSteps + k * (mult.v - minf.v),
                                     JitterSteps))
        sleep == IntOfFloat(sum, arch)
    IN  IF sleep > max THEN max ELSE sleep

\* The durations and attempt numbers a caller passes.
Durations == {-1, 0, 1, 3, MaxInt \div 2, MaxInt}

AttemptNums == 0..MaxAttemptNum

BackoffPolicyNames == {"default", "linearJitter", "fullJitter", "exponentialJitter"}

CallDefaultBackoff ==
    /\ bPolicy = "none"
    /\ bPolicy' = "default"
    /\ bOut' = DefaultBackoff(bMin, bMax, bAttemptNum, bArch)
    /\ UNCHANGED <<bArch, bMin, bMax, bAttemptNum, bDraw>>
    /\ UNCHANGED <<clientVars, requestCounter, closes, doVars, idleVars, policyVars, drainVars, newVars, bodyVars>>

CallLinearJitterBackoff ==
    /\ bPolicy = "none"
    /\ bPolicy' = "linearJitter"
    /\ bOut' = LinearJitterBackoff(bMin, bMax, bAttemptNum, bDraw)
    /\ UNCHANGED <<bArch, bMin, bMax, bAttemptNum, bDraw>>
    /\ UNCHANGED <<clientVars, requestCounter, closes, doVars, idleVars, policyVars, drainVars, newVars, bodyVars>>

CallFullJitterBackoff ==
    /\ bPolicy = "none"
    /\ bPolicy' = "fullJitter"
    /\ bOut' = FullJitterBackoff(bMin, bMax, bAttemptNum, bDraw)
    /\ UNCHANGED <<bArch, bMin, bMax, bAttemptNum, bDraw>>
    /\ UNCHANGED <<clientVars, requestCounter, closes, doVars, idleVars, policyVars, drainVars, newVars, bodyVars>>

CallExponentialJitterBackoff ==
    /\ bPolicy = "none"
    /\ bPolicy' = "exponentialJitter"
    /\ bOut' = ExponentialJitterBackoff(bMin, bMax, bAttemptNum, bDraw, bArch)
    /\ UNCHANGED <<bArch, bMin, bMax, bAttemptNum, bDraw>>
    /\ UNCHANGED <<clientVars, requestCounter, closes, doVars, idleVars, policyVars, drainVars, newVars, bodyVars>>

\* The arguments of one call, and the draw crypto/rand will give it.
InitBackoff ==
    /\ bArch \in Archs
    /\ bMin \in Durations
    /\ bMax \in Durations
    /\ bAttemptNum \in AttemptNums
    /\ bDraw \in Draws
    /\ bPolicy = "none"
    /\ bOut = 0
    /\ optRetryMax = 0
    /\ KillIdleConn = FALSE
    /\ policy = "default"
    /\ hasErrorHandler = FALSE
    /\ hasRequestLogHook = FALSE
    /\ hasResponseLogHook = FALSE
    /\ requestCounter = 0
    /\ closes = 0
    /\ ctxRetryMax = [present |-> FALSE, isInt |-> FALSE, val |-> 0]
    /\ DoAtRest
    /\ IdleAtRest
    /\ PolicyAtRest
    /\ DrainAtRest
    /\ NewAtRest
    /\ BodyAtRest

NextBackoff ==
    \/ CallDefaultBackoff
    \/ CallLinearJitterBackoff
    \/ CallFullJitterBackoff
    \/ CallExponentialJitterBackoff

SpecBackoff == InitBackoff /\ [][NextBackoff]_vars

(* --------------------------- default retry policy ---------------------- *)

\* ctx.Err(): nil, context.Canceled or context.DeadlineExceeded.
ContextErrors == {NoErr, "canceled", "deadlineExceeded"}

\* resp: nil or a response with this status code.
Responses == {NoRes, "200", "404", "500", "503"}

ServerErrors == {"500", "503"}

DefaultRetryPolicyRetryServerErrors(ctxErr, resp, e) ==
    LET d == CheckRecoverableErrors(ctxErr # NoErr, e)
    IN  IF ctxErr = NoErr /\ e = NoErr /\ resp \in ServerErrors
        THEN [ok |-> TRUE, err |-> NoErr]
        ELSE [ok |-> d.ok, err |-> IF d.err = ErrCtx THEN ctxErr ELSE d.err]

DefaultRetryPolicyErrFirst(ctxErr, resp, e) ==
    IF e = NoErr
    THEN [ok |-> FALSE, err |-> NoErr]
    ELSE LET d == CheckRecoverableErrors(ctxErr # NoErr, e)
         IN  [ok |-> d.ok, err |-> IF d.err = ErrCtx THEN ctxErr ELSE d.err]

\* DefaultRetryPolicy()(ctx, resp, err): CheckRecoverableErrors, which
\* ignores resp and returns ctx.Err() itself as the overriding error.
DefaultRetryPolicy(ctxErr, resp, e) ==
    LET d == CheckRecoverableErrors(ctxErr # NoErr, e)
    IN  [ok |-> d.ok, err |-> IF d.err = ErrCtx THEN ctxErr ELSE d.err]

CallDefaultRetryPolicy ==
    /\ ~pCalled
    /\ pCalled' = TRUE
    /\ pOut' = DefaultRetryPolicy(pCtxErr, pResp, pErr)
    /\ UNCHANGED <<pCtxErr, pResp, pErr>>
    /\ UNCHANGED <<clientVars, requestCounter, closes, doVars, idleVars, backoffVars, drainVars, newVars, bodyVars>>

\* The arguments of one call of the policy.
InitPolicy ==
    /\ pCtxErr \in ContextErrors
    /\ pResp \in Responses
    /\ pErr \in Errors \cup {NoErr}
    /\ pCalled = FALSE
    /\ pOut = [ok |-> FALSE, err |-> NoErr]
    /\ optRetryMax = 0
    /\ KillIdleConn = FALSE
    /\ policy = "default"
    /\ hasErrorHandler = FALSE
    /\ hasRequestLogHook = FALSE
    /\ hasResponseLogHook = FALSE
    /\ requestCounter = 0
    /\ closes = 0
    /\ ctxRetryMax = [present |-> FALSE, isInt |-> FALSE, val |-> 0]
    /\ DoAtRest
    /\ IdleAtRest
    /\ BackoffAtRest
    /\ DrainAtRest
    /\ NewAtRest
    /\ BodyAtRest

NextPolicy == CallDefaultRetryPolicy

SpecPolicy == InitPolicy /\ [][NextPolicy]_vars

(* ------------------------------ drainBody ------------------------------ *)

\* A body whose reads never fail.
NoFail == -1

\* No client, request or call of the other specifications.
ClientAtRest ==
    /\ optRetryMax = 0
    /\ KillIdleConn = FALSE
    /\ policy = "default"
    /\ hasErrorHandler = FALSE
    /\ hasRequestLogHook = FALSE
    /\ hasResponseLogHook = FALSE
    /\ ctxRetryMax = [present |-> FALSE, isInt |-> FALSE, val |-> 0]

\* drainBody with a failure counted whenever the cap cuts the body short.
DrainBodyCountsTruncation(len, limit, failAt) ==
    LET cap   == IF limit > 0 THEN limit ELSE 0
        avail == IF len < cap THEN len ELSE cap
        fails == failAt # NoFail /\ failAt < avail
    IN  [read   |-> IF fails THEN failAt ELSE avail,
         failed |-> fails \/ len > cap]

\* drainBody, line 195: io.Copy(io.Discard, io.LimitReader(resp.Body, limit)).
\* The limited reader hands out at most limit bytes (none for limit <= 0)
\* and then reports EOF without reading further, which io.Copy takes as
\* success; a failing read of the body inside the cap is io.Copy's error.
DrainBody(len, limit, failAt) ==
    LET cap   == IF limit > 0 THEN limit ELSE 0
        avail == IF len < cap THEN len ELSE cap
        fails == failAt # NoFail /\ failAt < avail
    IN  [read   |-> IF fails THEN failAt ELSE avail,
         failed |-> fails]

\* Do, lines 151-157, and drainBody, lines 194-201: a retry has been decided,
\* the response of the retried attempt is drained and closed.
RetryDrain ==
    /\ dpc = "retry"
    /\ IF Drains(dRes, dErr)
       THEN LET d == DrainBody(dLen, dLimit, dFailAt)
            IN  /\ dRead' = d.read
                /\ dErrors' = IF d.failed THEN dErrors + 1 ELSE dErrors
                /\ dClosed' = TRUE
       ELSE UNCHANGED <<dRead, dErrors, dClosed>>
    /\ dpc' = "backoff"
    /\ UNCHANGED <<dRes, dErr, dLen, dLimit, dFailAt>>
    /\ UNCHANGED <<clientVars, requestCounter, closes, doVars, idleVars,
                   backoffVars, policyVars, newVars, bodyVars>>

\* Do, lines 161-166: the backoff is computed and the wait entered.
RetryBackoff ==
    /\ dpc = "backoff"
    /\ dpc' = "select"
    /\ UNCHANGED <<dRes, dErr, dLen, dLimit, dFailAt, dRead, dErrors, dClosed>>
    /\ UNCHANGED <<clientVars, requestCounter, closes, doVars, idleVars,
                   backoffVars, policyVars, newVars, bodyVars>>

\* The outcome of the attempt being retried, its body and the read limit.
InitDrain ==
    /\ \E o \in TransportOutcomes :
          /\ dRes = o[1]
          /\ dErr = o[3]
    /\ dLen \in 0..MaxBodyLen
    /\ dLimit \in -1..MaxReadLimit
    /\ dFailAt \in {NoFail} \cup 0..(MaxBodyLen - 1)
    /\ dRead = 0
    /\ dErrors = 0
    /\ dClosed = FALSE
    /\ dpc = "retry"
    /\ ClientAtRest
    /\ requestCounter = 0
    /\ closes = 0
    /\ DoAtRest
    /\ IdleAtRest
    /\ BackoffAtRest
    /\ PolicyAtRest
    /\ NewAtRest
    /\ BodyAtRest

NextDrain ==
    \/ RetryDrain
    \/ RetryBackoff

SpecDrain == InitDrain /\ [][NextDrain]_vars

(* --------------------------------- New --------------------------------- *)

\* Options.HTTPClient: nil, or a client whose Transport is nil, a
\* RoundTripper of another type, or an *http.Transport: one that pools
\* connections (keep-alives on, MaxConnsPerHost 0), one with
\* DisableKeepAlives, one with MaxConnsPerHost < 0.
CustomClients ==
    {"nil", "nilTransport", "roundTripper", "pooled", "noKeepAlive", "negMaxConns"}

\* Options.Timeout values, in units of 1 / SecondUnits second.
Timeouts ==
    {-1, 0, 15 * SecondUnits, 15 * SecondUnits + 1, 16 * SecondUnits,
     20 * SecondUnits, 25 * SecondUnits, 30 * SecondUnits}

RetryMaxes == {0, 1, 2, 4}

OptionValues ==
    [HTTPClient : CustomClients, KillIdleConn : BOOLEAN, Timeout : Timeouts,
     RetryMax : RetryMaxes, NoAdjustTimeout : BOOLEAN]

\* The fields of the presets that New reads (lines 260-282).
DefaultOptionsSingle ==
    [HTTPClient |-> "nil", KillIdleConn |-> FALSE, Timeout |-> 30 * SecondUnits,
     RetryMax |-> 4, NoAdjustTimeout |-> TRUE]

DefaultOptionsSpraying ==
    [HTTPClient |-> "nil", KillIdleConn |-> TRUE, Timeout |-> 30 * SecondUnits,
     RetryMax |-> 4, NoAdjustTimeout |-> TRUE]

\* New, lines 298-302: DefaultHTTPClient() unless Options.HTTPClient is set.
\* "default" is DefaultHTTPTransport(): DisableKeepAlives = true,
\* MaxIdleConnsPerHost = -1, MaxConnsPerHost left 0.
TransportOf(o) == IF o.HTTPClient = "nil" THEN "default" ELSE o.HTTPClient

\* c.HTTPClient.Transport.(*http.Transport) succeeds.
IsHTTPTransport(t) == t \in {"default", "pooled", "noKeepAlive", "negMaxConns"}

DisableKeepAlives(t) == t \in {"default", "noKeepAlive"}

MaxConnsPerHostNegative(t) == t = "negMaxConns"

\* setKillIdleConnections, lines 74-80: the value of c.options.KillIdleConn
\* it leaves.
setKillIdleConnections(hasClient, kill, t) ==
    IF hasClient \/ ~kill
    THEN IF IsHTTPTransport(t)
         THEN DisableKeepAlives(t) \/ MaxConnsPerHostNegative(t)
         ELSE kill
    ELSE kill

\* New, lines 322-331: client.HTTPClient.Timeout (0 when nothing sets it).
\* time.Duration(options.Timeout.Seconds()*0.3) keeps the whole seconds of
\* 30% of the deadline.
ClientTimeout(o) ==
    IF o.Timeout > 15 * SecondUnits /\ o.RetryMax > 1 /\ ~o.NoAdjustTimeout
    THEN TruncDiv(o.Timeout * 3, 10 * SecondUnits) * SecondUnits
    ELSE IF o.Timeout > 0 THEN o.Timeout ELSE 0

\* New, lines 295-338.  client.HTTPClient is never nil past line 298.
New ==
    /\ npc = "new"
    /\ nTransport' = TransportOf(nOptions)
    /\ nTimeout' = ClientTimeout(nOptions)
    /\ nKill' = setKillIdleConnections(TRUE, nOptions.KillIdleConn, TransportOf(nOptions))
    /\ npc' = "built"
    /\ UNCHANGED <<nOptions, nCalls>>
    /\ UNCHANGED <<clientVars, requestCounter, closes, doVars, idleVars,
                   backoffVars, policyVars, drainVars, bodyVars>>

\* A Do call on the client returns: every return of Do runs
\* closeIdleConnections once (lines 139, 169, 177, 188).
DoReturns ==
    /\ npc = "built"
    /\ nCalls < MaxDoCalls
    /\ nCalls' = nCalls + 1
    /\ requestCounter' = CounterAfterClose(nKill, requestCounter)
    /\ closes' = IF ClosesIdle(nKill, requestCounter) THEN closes + 1 ELSE closes
    /\ UNCHANGED <<nOptions, nTransport, nTimeout, nKill, npc>>
    /\ UNCHANGED <<clientVars, doVars, idleVars, backoffVars, policyVars, drainVars,
                   bodyVars>>

\* The options passed to New.
InitNew ==
    /\ nOptions \in OptionValues
    /\ nTransport = "none"
    /\ nTimeout = 0
    /\ nKill = FALSE
    /\ nCalls = 0
    /\ npc = "new"
    /\ ClientAtRest
    /\ requestCounter = 0
    /\ closes = 0
    /\ DoAtRest
    /\ IdleAtRest
    /\ BackoffAtRest
    /\ PolicyAtRest
    /\ DrainAtRest
    /\ BodyAtRest

NextNew ==
    \/ New
    \/ DoReturns

SpecNew == InitNew /\ [][NextNew]_vars

(* -------------------- getReusableBodyandContentLength ------------------ *)

\* The dynamic types of rawBody the type switch tells apart (lines 26-32):
\* nil, an io.ReadCloser, a *io.ReadCloser, and anything else (a string, a
\* []byte, a plain io.Reader).
BodyKinds == {"nil", "ReadCloser", "PtrReadCloser", "other"}

ErrRead == "read"

\* getLength, lines 14-18: io.Copy(io.Discard, x) reads x from its current
\* position to EOF or to the first failing read; it returns the bytes copied
\* and leaves the reader where the copy stopped.
getLength(len, pos, failAt) ==
    LET fails == failAt # NoFail /\ failAt >= pos /\ failAt < len
        stop  == IF fails THEN failAt ELSE len
    IN  [length |-> stop - pos, failed |-> fails, pos |-> stop]

\* getReusableBodyandContentLength, lines 20-45, and the position its
\* argument's reader is left at.
getReusableBodyandContentLength(kind, len, failAt) ==
    IF kind \in {"ReadCloser", "PtrReadCloser"}
    THEN LET g == getLength(len, 0, failAt)
         IN  IF g.failed
             THEN [body |-> "nil", length |-> 0, err |-> ErrRead, pos |-> g.pos]
             ELSE [body |-> "reader", length |-> g.length, err |-> NoErr, pos |-> g.pos]
    ELSE [body |-> "nil", length |-> 0, err |-> NoErr, pos |-> 0]

\* The request's body is prepared.
PrepareBody ==
    /\ rbpc = "raw"
    /\ LET out == getReusableBodyandContentLength(rbKind, rbLen, rbFailAt)
       IN  /\ rbOut' = [body |-> out.body, length |-> out.length, err |-> out.err]
           /\ rbPos' = out.pos
    /\ rbpc' = "prepared"
    /\ UNCHANGED <<rbKind, rbLen, rbFailAt, rbSent, rbSends>>
    /\ UNCHANGED <<clientVars, requestCounter, closes, doVars, idleVars,
                   backoffVars, policyVars, drainVars, newVars>>

\* An attempt of Do (client.go lines 103-110) sends the request: the
\* transport reads the returned body, the same reader, to EOF.
SendBody ==
    /\ rbpc \in {"prepared", "sent"}
    /\ rbOut.body # "nil"
    /\ rbOut.err = NoErr
    /\ rbSends < MaxBodySends
    /\ rbSent' = getLength(rbLen, rbPos, rbFailAt).length
    /\ rbPos' = getLength(rbLen, rbPos, rbFailAt).pos
    /\ rbSends' = rbSends + 1
    /\ rbpc' = "sent"
    /\ UNCHANGED <<rbKind, rbLen, rbFailAt, rbOut>>
    /\ UNCHANGED <<clientVars, requestCounter, closes, doVars, idleVars,
                   backoffVars, policyVars, drainVars, newVars>>

\* The rawBody passed when a request is built.
InitBody ==
    /\ rbKind \in BodyKinds
    /\ rbLen \in (IF rbKind = "nil" THEN {0} ELSE 0..MaxBodyLen)
    /\ rbFailAt \in (IF rbKind = "nil" THEN {NoFail} ELSE {NoFail} \cup 0..(MaxBodyLen - 1))
    /\ rbPos = 0
    /\ rbOut = [body |-> "nil", length |-> 0, err |-> NoErr]
    /\ rbSent = 0
    /\ rbSends = 0
    /\ rbpc = "raw"
    /\ ClientAtRest
    /\ requestCounter = 0
    /\ closes = 0
    /\ DoAtRest
    /\ IdleAtRest
    /\ BackoffAtRest
    /\ PolicyAtRest
    /\ DrainAtRest
    /\ NewAtRest

NextBody ==
    \/ PrepareBody
    \/ SendBody

SpecBody == InitBody /\ [][NextBody]_vars

(* ------------------------------ claims --------------------------------- *)

Max(a, b) == IF a >= b THEN a ELSE b

\* C1: with a policy that always says retry, a retry budget retryMax >= 0 and
\* a request context that is never canceled, Do never makes more than
\* retryMax + 1 attempts, and when it returns it has made exactly
\* retryMax + 1 and returns by the give-up path.
C1_AlwaysRetryExhausts ==
    (policy = "always" /\ pc # "call" /\ retryMax >= 0 /\ ~ctxDone) =>
        /\ attempts <= retryMax + 1
        /\ pc = "done" =>
              /\ attempts = retryMax + 1
              /\ exit \in {"giveup", "handler"}

C1_Witness ==
    /\ policy = "always"
    /\ pc = "done"
    /\ ~ctxDone
    /\ retryMax >= 1
    /\ attempts = retryMax + 1
    /\ exit = "giveup"

\* C2 as claimed: for every integer retry ceiling, attempts <= ceiling + 1.
C2_AttemptsAtMostMaxPlusOne ==
    pc # "call" => attempts <= retryMax + 1

\* C2, amended: the attempts made so far are at most max(ceiling, 0) + 1; one
\* attempt is made even when the effective ceiling is negative.
C2_AttemptsBounded ==
    pc # "call" => attempts <= Max(retryMax, 0) + 1

C2_Witness ==
    /\ pc = "done"
    /\ ctxRetryMax.present /\ ctxRetryMax.isInt
    /\ retryMax = ctxRetryMax.val
    /\ retryMax # optRetryMax
    /\ attempts = retryMax + 1

\* C3: once the request's context has been canceled, no further attempt is
\* started (the first attempt of a call made with a canceled context is not
\* "another" attempt).
C3_NoAttemptAfterCancel ==
    ctxDone => attempts <= Max(attemptsAtCancel, 1)

\* C4: with the default policy and a context canceled before the call, Do
\* returns the context's error after at most one attempt, the retry counter
\* still 0.
C4_CanceledBeforeCall ==
    (policy = "default" /\ ctxDone /\ attemptsAtCancel = 0) =>
        /\ attempts <= 1
        /\ Metrics.Retries = 0
        /\ pc = "done" => retErr = ErrCtx /\ attempts = 1

C4_Witness ==
    /\ policy = "default"
    /\ ctxDone /\ attemptsAtCancel = 0
    /\ pc = "done"
    /\ retryMax >= 1
    /\ err = "transient"
    /\ retErr = ErrCtx

\* C5: when the request's context was canceled before Do returned, Do does
\* not return the giving-up error or the error handler's result.
C5_CancelWinsOverGiveUp ==
    (pc = "done" /\ ctxDone) => exit \notin {"giveup", "handler"}

\* C6: once the overall deadline has fired, no further attempt is started.
C6_NoAttemptAfterDeadline ==
    mainDone => attempts = attemptsAtDeadline

\* C7: when the policy says stop on the failed first attempt, Do returns
\* after one attempt with Retries = 0 and Failures = 1, and neither a backoff
\* was computed nor the wait entered.
C7_StopOnFirstError ==
    (pc = "done" /\ exit = "stop" /\ i = 0 /\ err # NoErr) =>
        /\ attempts = 1
        /\ Metrics.Retries = 0
        /\ Metrics.Failures = 1
        /\ backoffCalls = 0
        /\ selects = 0

C7_Witness ==
    /\ pc = "done" /\ exit = "stop" /\ i = 0
    /\ policy = "default"
    /\ ~ctxDone
    /\ err = "redirects"
    /\ retErr = "redirects"
    /\ Metrics.Failures = 1

\* C8: with the default policy and a live context, when the last attempt
\* succeeds after k failed ones (k = attempts - 1: the default policy goes on
\* only after an error), Do returns the response with a nil error and
\* Retries = Failures = k.
C8_FailThenSucceed ==
    (policy = "default" /\ ~ctxDone /\ pc = "done" /\ err = NoErr) =>
        /\ exit = "stop"
        /\ retRes = "resp"
        /\ retErr = NoErr
        /\ Metrics.Retries = attempts - 1
        /\ Metrics.Failures = attempts - 1
        /\ attempts - 1 <= Max(retryMax, 0)

C8_Witness ==
    /\ policy = "default" /\ ~ctxDone /\ pc = "done"
    /\ err = NoErr /\ retErr = NoErr /\ retRes = "resp"
    /\ attempts = 3
    /\ Metrics.Retries = 2
    /\ Metrics.Failures = 2

\* C9: with idle-kill effective and the counter at zero, closeConnectionsCounter
\* sequential calls of closeIdleConnections close the idle connections
\* exactly once and leave the counter at zero.
C9_ThresholdCallsCloseOnce ==
    (KillIdleConn /\ ~overlapped
        /\ calls = closeConnectionsCounter /\ returned = closeConnectionsCounter) =>
        /\ closes = 1
        /\ requestCounter = 0

\* C10: under any interleaving there are no more forced closures than times
\* the counter reached the threshold.
C10_NoDoubleClose ==
    closes <= reached

\* C11: under any interleaving the shared counter never exceeds the
\* threshold, and once every call has returned the calls made are the
\* counter value plus the closeConnectionsCounter + 1 calls of each reset.
C11_NoLostUpdate ==
    /\ requestCounter <= closeConnectionsCounter
    /\ (KillIdleConn /\ InFlight = {}) =>
          returned = requestCounter + closes * (closeConnectionsCounter + 1)

\* C12 as stated: whichever of the four backoff policies is called, for every
\* min, max, attempt number >= 0 and jitter draw, the duration returned is
\* at most max.
C12_AllPoliciesAtMostMax ==
    bPolicy \in BackoffPolicyNames => bOut <= bMax

\* C12: the exponential-no-jitter, full-jitter and exponential-with-jitter
\* policies return at most max for every min, max, attempt number >= 0 and
\* jitter draw; the linear-with-jitter policy is outside the bound.
C12_ClampedPoliciesAtMostMax ==
    bPolicy \in BackoffPolicyNames \ {"linearJitter"} => bOut <= bMax

\* The exponential-with-jitter policy clamped a larger value to max.
C12_Witness ==
    /\ bPolicy = "exponentialJitter"
    /\ bMin > 0
    /\ bDraw > 0
    /\ bOut = bMax
    /\ ExponentialJitterBackoffNoClamp(bMin, bMax, bAttemptNum, bDraw, bArch) > bMax

Min(a, b) == IF a <= b THEN a ELSE b

\* C13: DefaultBackoff returns exactly min(min * 2^n, max) for every attempt
\* number n >= 0, whatever the build, and returns max when min * 2^n is
\* outside the representable duration range.
C13_DefaultBackoffExact ==
    bPolicy = "default" =>
        LET product == bMin * 2 ^ bAttemptNum
        IN  bOut = IF product < MinInt \/ product > MaxInt
                   THEN bMax
                   ELSE Min(product, bMax)

\* C14: LinearJitterBackoff called with max <= min returns min * (attempt + 1)
\* for every zero-based attempt number and whatever crypto/rand would draw;
\* the product is taken in time.Duration arithmetic, so it is the exact
\* product whenever that is representable.
C14_LinearDegenerate ==
    (bPolicy = "linearJitter" /\ bMax <= bMin) =>
        LET product == bMin * (bAttemptNum + 1)
        IN  /\ bOut = Wrap(product)
            /\ (product >= MinInt /\ product <= MaxInt) => bOut = product

C14_Witness ==
    /\ bPolicy = "linearJitter"
    /\ bMax <= bMin
    /\ bMin > 1
    /\ bAttemptNum >= 2
    /\ bDraw > 0
    /\ bOut = bMin * (bAttemptNum + 1)

\* C15: whenever the context is canceled or past its deadline, the default
\* retry policy returns (do not retry, the context's error) for every
\* response and every error value, nil included.
C15_ContextCheckedFirst ==
    (pCalled /\ pCtxErr # NoErr) => pOut = [ok |-> FALSE, err |-> pCtxErr]

C15_Witness ==
    /\ pCalled
    /\ pCtxErr = "deadlineExceeded"
    /\ pErr = NoErr
    /\ pResp = "200"
    /\ pOut = [ok |-> FALSE, err |-> "deadlineExceeded"]

C17_Permanent(e) == e \in {"redirects", "scheme", "unknownAuthority"}

\* C17: with a live context and a non-nil error the default retry policy
\* returns (do not retry, no overriding error) exactly when the error is one
\* of the three permanent URL errors, and (retry, no overriding error) for
\* every other error.
C17_StopExactlyOnPermanent ==
    (pCalled /\ pCtxErr = NoErr /\ pErr # NoErr) =>
        pOut = [ok |-> ~C17_Permanent(pErr), err |-> NoErr]

\* C18: the attempt budget of a call is the value stored in the request
\* context under the RetryMax key when that value is present and an int,
\* and Options.RetryMax when the key is absent or holds another type; a
\* call that is always told to retry and is never canceled makes the
\* budget plus one attempts.
C18_OverrideTakesPrecedence ==
    LET budget == IF ctxRetryMax.present /\ ctxRetryMax.isInt
                  THEN ctxRetryMax.val
                  ELSE optRetryMax
    IN  pc # "call" =>
          /\ retryMax = budget
          /\ (pc = "done" /\ policy = "always" /\ ~ctxDone /\ budget >= 0) =>
                attempts = budget + 1

C18_Witness ==
    /\ pc = "done"
    /\ policy = "always"
    /\ ~ctxDone
    /\ ctxRetryMax.present
    /\ ctxRetryMax.isInt
    /\ optRetryMax > ctxRetryMax.val
    /\ attempts = ctxRetryMax.val + 1

\* C19: with a request-log hook configured, the hook has been called once
\* for each attempt started, the k-th call received index k - 1 and came
\* when k - 1 attempts had been started (before the k-th transport call);
\* without a hook nothing is logged.
C19_RequestHookPerAttempt ==
    IF hasRequestLogHook
    THEN requestLog = [k \in 1..attempts |-> <<k - 1, k - 1>>]
    ELSE requestLog = <<>>

C19_Witness ==
    /\ hasRequestLogHook
    /\ pc = "done"
    /\ attempts = 3
    /\ requestLog = <<(<<0, 0>>), (<<1, 1>>), (<<2, 2>>)>>

\* C20: with a response-log hook configured, the hook has been called once
\* for every attempt whose final outcome had no error (the attempts decided
\* so far less those counted as failures), whether the policy then said stop
\* or retry, and never for an attempt whose final outcome is an error;
\* without a hook it is never called.
C20_ResponseHookOnSuccess ==
    LET decided == IF pc = "check" THEN attempts - 1 ELSE attempts
    IN  responseLogs = IF hasResponseLogHook THEN decided - Metrics.Failures ELSE 0

C20_Witness ==
    /\ hasResponseLogHook
    /\ pc = "done"
    /\ exit = "stop"
    /\ attempts = 3
    /\ Metrics.Retries = 2
    /\ Metrics.Failures = 1
    /\ responseLogs = 2

\* C21: on the give-up path with an ErrorHandler configured, the handler is
\* called (once, as Do returns right after) with the last attempt's response
\* and error, Do returns the pair the handler returns, and Do leaves the
\* response body as the attempt left it; on no other path is it called.
C21_HandlerTakesOver ==
    /\ (pc = "done" /\ exit = "handler") =>
          /\ hasErrorHandler
          /\ handlerArgs # <<>>
          /\ handlerArgs[1] = res
          /\ handlerArgs[2] = err
          /\ retRes = HandlerRes
          /\ retErr = HandlerErr
          /\ bodyOpen = (res # NoRes /\ err = NoErr)
    /\ exit # "handler" => handlerArgs = <<>>
    /\ hasErrorHandler => exit # "giveup"

C21_Witness ==
    /\ pc = "done"
    /\ exit = "handler"
    /\ attempts = 2
    /\ handlerArgs[1] = "resp"
    /\ handlerArgs[2] = NoErr
    /\ bodyOpen
    /\ retRes = HandlerRes

\* C22: the attempt count handed to the ErrorHandler, and the one in the
\* giving-up error, is the number of attempts Do made, for every effective
\* maximum retry count, 0 and negative values included.
C22_ReportedAttemptsAreMade ==
    /\ exit = "handler" => handlerArgs[3] = attempts
    /\ exit = "giveup" => reported = attempts

\* C23: on the give-up path without an ErrorHandler, Do has closed the last
\* response's body if there is a response, and returns no response with the
\* giving-up error wrapping the last attempt's error.
C23_DefaultGiveUp ==
    (pc = "done" /\ exit = "giveup") =>
        /\ ~hasErrorHandler
        /\ res # NoRes => ~bodyOpen
        /\ retRes = NoRes
        /\ retErr = ErrGivingUp
        /\ wrapped = err

C23_Witness ==
    /\ pc = "done"
    /\ exit = "giveup"
    /\ res = "resp"
    /\ err = NoErr
    /\ ~bodyOpen
    /\ attempts = 2
    /\ retRes = NoRes
    /\ retErr = ErrGivingUp

\* C24: a drain reads at most the configured byte cap, the drain-error
\* counter goes up only when a read of the body fails (not when the cap cuts
\* the body short), the body is closed, and whether or not the drain failed
\* the retry goes on to the backoff and the wait.
C24_DrainIsHarmless ==
    LET cap == IF dLimit > 0 THEN dLimit ELSE 0
    IN  dpc # "retry" =>
          /\ dpc \in {"backoff", "select"}
          /\ dRead <= cap
          /\ dRead <= dLen
          /\ dClosed = Drains(dRes, dErr)
          /\ dErrors \in {0, 1}
          /\ dErrors = 1 => (dClosed /\ dFailAt # NoFail /\ dRead = dFailAt)
          /\ (dClosed /\ dFailAt = NoFail) => dErrors = 0
          /\ (dClosed /\ dLen > cap /\ dRead = cap) => dErrors = 0

\* A drain failed inside the cap and the retry went on to the wait.
C24_Witness ==
    /\ dpc = "select"
    /\ dClosed
    /\ dErrors = 1
    /\ dRead = 1
    /\ dLimit = 2
    /\ dLen = 3

\* C25: no step of Do lowers or resets a metrics counter: retries, failures
\* and drain errors only grow.
C25_CountersMonotonic ==
    [][/\ Metrics'.Retries >= Metrics.Retries
       /\ Metrics'.Failures >= Metrics.Failures
       /\ Metrics'.DrainErrors >= Metrics.DrainErrors]_vars

\* All three counters have been incremented, the retry counter twice.
C25_Witness ==
    /\ Metrics.Retries = 2
    /\ Metrics.Failures >= 1
    /\ Metrics.DrainErrors >= 1

\* C26: after New the effective idle-kill flag is the configured flag OR
\* "the primary transport disables keep-alives or connection reuse".
C26_FlagIsConfiguredOrTransport ==
    npc = "built" =>
        nKill = (nOptions.KillIdleConn
                 \/ (IsHTTPTransport(nTransport)
                     /\ (DisableKeepAlives(nTransport)
                         \/ MaxConnsPerHostNegative(nTransport))))

\* C27: a client built from DefaultOptionsSingle has idle-kill off and no Do
\* call on it changes the request counter or closes idle connections; a
\* client built from DefaultOptionsSpraying has idle-kill on.
C27_SinglePresetNeverKills ==
    npc = "built" =>
        /\ nOptions = DefaultOptionsSingle =>
              (~nKill /\ requestCounter = 0 /\ closes = 0)
        /\ nOptions = DefaultOptionsSpraying => nKill

\* C28: with a deadline above 15 seconds, a maximum retry count above 1 and
\* adjustment not disabled, the per-attempt timeout is 30% of the deadline;
\* otherwise, for a positive deadline, it is the deadline.
C28_ThirtyPercent ==
    (npc = "built" /\ nOptions.Timeout > 0) =>
        IF /\ nOptions.Timeout > 15 * SecondUnits
           /\ nOptions.RetryMax > 1
           /\ ~nOptions.NoAdjustTimeout
        THEN 10 * nTimeout = 3 * nOptions.Timeout
        ELSE nTimeout = nOptions.Timeout

\* C29: with the default retry policy and no ErrorHandler, whenever Do
\* returns exactly one of the two results is present: a response with a nil
\* error, or no response with an error.
C29_ExactlyOneResult ==
    (pc = "done" /\ policy = "default" /\ ~hasErrorHandler) =>
        \/ (retRes # NoRes /\ retErr = NoErr)
        \/ (retRes = NoRes /\ retErr # NoErr)

C31_StopReturnsAttemptOrOverride ==
    (pc = "done" /\ exit = "stop") =>
        /\ retRes = res
        /\ overriding # NoErr => retErr = overriding
        /\ overriding = NoErr => retErr = err
        /\ policy = "default" => overriding = (IF ctxDone THEN ErrCtx ELSE NoErr)

\* A custom policy stopped a failed second attempt with its own error.
C31_Witness ==
    /\ pc = "done"
    /\ exit = "stop"
    /\ policy = "custom"
    /\ attempts = 2
    /\ err = "transient"
    /\ overriding = ErrPolicy
    /\ retErr = ErrPolicy
    /\ retRes = res

\* A step in which a transport is called while the iteration is being
\* checked: a call of the HTTP/2 client.
C32_HTTP2Call ==
    /\ pc = "check"
    /\ pc' = "check"
    /\ (res' # res \/ err' # err \/ bodyOpen' # bodyOpen \/ fellBack' # fellBack)

\* C32: the HTTP/2 client is called at most once in an iteration and only on
\* the protocol-mismatch error of the primary attempt; the call leaves the
\* attempt index, the retry budget, the attempt count and the metrics alone;
\* and the decision Do acts upon is the one for the fallback's outcome.
C32_FallbackOncePerIteration ==
    /\ [][C32_HTTP2Call =>
            /\ ~fellBack
            /\ fellBack'
            /\ err = ErrHTTP2
            /\ i' = i
            /\ retryMax' = retryMax
            /\ attempts' = attempts
            /\ Metrics' = Metrics]_vars
    /\ []((fellBack /\ pc = "check") => attempts = i + 1)
    /\ []((pc = "done" /\ fellBack /\ policy = "default" /\ ~ctxDone) =>
            (exit = "stop") = ~CheckRecoverableErrors(FALSE, err).ok)

\* The primary attempt hit the protocol mismatch, the HTTP/2 client
\* succeeded and Do returned its response without a retry.
C32_Witness ==
    /\ pc = "done"
    /\ fellBack
    /\ policy = "default"
    /\ exit = "stop"
    /\ err = NoErr
    /\ retRes = "resp"
    /\ attempts = 1
    /\ Metrics.Retries = 0

C34_CancelDuringWaitAborts ==
    /\ [][(pc = "parked" /\ ~ctxDone /\ ctxDone') =>
            /\ pc' = "done"
            /\ exit' = "abort"
            /\ attempts' = attempts
            /\ idleCalls' = idleCalls + 1]_vars
    /\ [](exit = "abort" =>
            /\ pc = "done"
            /\ retRes = NoRes
            /\ retErr = ErrCtx
            /\ idleCalls = 1)

\* An attempt produced a response, the policy asked for a retry, and the
\* cancellation ended the wait.
C34_Witness ==
    /\ pc = "done"
    /\ exit = "abort"
    /\ res = "resp"
    /\ err = NoErr
    /\ attempts = 1
    /\ attemptsAtCancel = 1
    /\ retRes = NoRes
    /\ retErr = ErrCtx

\* C35: Do terminates: every execution reaches a return (policy stop, abort,
\* error handler or give-up), and before it the loop has started at most
\* max(retryMax, 0) + 1 iterations.
C35_DoTerminates ==
    /\ <>(pc = "done")
    /\ [](pc = "done" => exit \in {"stop", "abort", "handler", "giveup"})
    /\ [](i <= Max(retryMax, 0))
    /\ [](attempts <= Max(retryMax, 0) + 1)

\* Do returned after the largest number of iterations its budget allows,
\* every wait having been ended by its timer.
C35_Witness ==
    /\ pc = "done"
    /\ exit = "handler"
    /\ retryMax = 1
    /\ i = 1
    /\ attempts = 2
    /\ ~ctxDone
    /\ ~mainDone

\* C36: for min >= 0 the delay of DefaultBackoff does not decrease from one
\* attempt number to the next, for every max, on either architecture, and
\* across the attempt number at which min * 2^n stops fitting a Duration.
C36_DefaultBackoffMonotone ==
    (bPolicy = "default" /\ bMin >= 0) =>
        bOut <= DefaultBackoff(bMin, bMax, bAttemptNum + 1, bArch)

\* The last attempt number whose delay fits: the next one overflows and is
\* clamped to max.
C36_Witness ==
    /\ bPolicy = "default"
    /\ bMin = 1
    /\ bMax = MaxInt
    /\ bAttemptNum = IntBits - 2
    /\ bOut = (MaxInt + 1) \div 2
    /\ IntOfFloat(FloatMul(Pow2(bAttemptNum + 1), FloatOfInt(bMin)), bArch) \in {MinInt, MaxInt}
    /\ DefaultBackoff(bMin, bMax, bAttemptNum + 1, bArch) = bMax

\* C37: Do calls closeIdleConnections once, in the step that returns, on
\* each of its four exits, and not before; with KillIdleConn unset no step
\* of Do changes the shared counter or closes idle connections.
C37_BookkeepingOncePerCall ==
    /\ [][idleCalls' # idleCalls =>
            /\ idleCalls' = idleCalls + 1
            /\ pc # "done"
            /\ pc' = "done"]_vars
    /\ [](pc = "done" =>
            /\ idleCalls = 1
            /\ exit \in {"stop", "abort", "handler", "giveup"})
    /\ [](pc # "done" => idleCalls = 0 /\ exit = "none")
    /\ [][~KillIdleConn =>
            /\ requestCounter' = requestCounter
            /\ closes' = closes]_vars
    /\ [][(KillIdleConn /\ pc' = "done" /\ pc # "done") =>
            /\ requestCounter' = CounterAfterClose(TRUE, requestCounter)
            /\ closes' = closes + (IF requestCounter = closeConnectionsCounter THEN 1 ELSE 0)]_vars

\* Do gave up through the error handler of a client whose KillIdleConn is
\* unset: one call of closeIdleConnections, counter and connections untouched.
C37_Witness ==
    /\ pc = "done"
    /\ exit = "handler"
    /\ ~KillIdleConn
    /\ idleCalls = 1
    /\ requestCounter = 0
    /\ closes = 0
    /\ attempts = 2

\* C38: when Do has returned, Metrics.Retries is the number of attempts made
\* minus one, on every exit, and is at most the retry ceiling in force.
C38_RetriesAreReattempts ==
    pc = "done" =>
        /\ Metrics.Retries = attempts - 1
        /\ Metrics.Retries <= retryMax

\* C39: Metrics.Failures changes only in the step that leaves the check of
\* an iteration, by one, exactly when the error left after the HTTP/2
\* fallback (if any) is non-nil; the fallback call itself adds nothing; and
\* Failures never exceeds the number of attempts.
C39_FailuresCountFinalOutcome ==
    /\ [][Metrics'.Failures # Metrics.Failures =>
            /\ Metrics'.Failures = Metrics.Failures + 1
            /\ pc = "check"
            /\ pc' # "check"
            /\ err # NoErr]_vars
    /\ [][(pc = "check" /\ pc' # "check" /\ err # NoErr) =>
            Metrics'.Failures = Metrics.Failures + 1]_vars
    /\ [](Metrics.Failures <= attempts)

\* The first iteration failed; in the second the primary attempt hit the
\* protocol mismatch and the HTTP/2 client succeeded: one failure counted.
C39_Witness ==
    /\ pc = "done"
    /\ exit = "stop"
    /\ attempts = 2
    /\ fellBack
    /\ err = NoErr
    /\ retRes = "resp"
    /\ Metrics.Failures = 1
    /\ Metrics.Retries = 1

\* C40: when getReusableBodyandContentLength returned a body, a content
\* length n and no error, an attempt reading the returned body gets exactly
\* n bytes, the first attempt and every later one.
C40_ReturnedBodyYieldsLength ==
    (rbpc = "sent" /\ rbOut.body # "nil" /\ rbOut.err = NoErr) =>
        rbSent = rbOut.length


====
